---- MODULE Spec2Model ----
(***************************************************************************)
(* Model of shorttext.classifiers.embed.nnlib.VarNNEmbedVecClassification: *)
(* the class VarNNEmbeddedVecClassifier (label indexing, padding of token  *)
(* sequences into embedded-vector matrices, the trained flag, savemodel /  *)
(* loadmodel bookkeeping and score).                                       *)
(*                                                                         *)
(* Python strings are sequences of one-character strings, a list is a      *)
(* sequence, a dict with its key iteration order is a sequence of          *)
(* (key, value) records with distinct keys.  The code is Python 2 code     *)
(* (dict.keys() and map() return lists).                                   *)
(***************************************************************************)
EXTENDS Integers, Sequences, FiniteSets, TLC

VARIABLES
    with_gensim,   \* self.with_gensim
    trained,       \* self.trained
    classlabels,   \* self.classlabels (<<>> while the attribute is unset)
    model,         \* self.model (NoModel while the attribute is unset)
    fs,            \* the files under the name prefix
    lastOp,        \* the call that ran last
    lastResult,    \* "ok" or the exception the call raised
    lastArg,       \* the argument of the last call
    lastOut,       \* what the last call returned (or handed to the external model)
    lastWrites,    \* the files the last savemodel wrote, in order
    predictArgs,   \* the tensors the last call passed to model.predict, in order
    lastPred,      \* what model.predict returned to the last call
    everCompleted  \* history: some train or loadmodel call has returned normally

vars == <<with_gensim, trained, classlabels, model, fs, lastOp, lastResult,
          lastArg, lastOut, lastWrites, predictArgs, lastPred, everCompleted>>

----------------------------------------------------------------------------
\* Bounds of the model

\* largest number of class labels of a training corpus
MaxLabels == 2
\* largest number of entries of a training corpus, all labels together
MaxEntries == 3

\* constructor parameters (defaults 100 and 15)
vecsize == 2
maxlen == 2

----------------------------------------------------------------------------
\* Generic helpers

Range(s) == {s[i] : i \in 1..Len(s)}

Min(a, b) == IF a < b THEN a ELSE b

RECURSIVE Flatten(_)
Flatten(ss) == IF ss = <<>> THEN <<>> ELSE Head(ss) \o Flatten(Tail(ss))

\* sequences over S of length lo..hi
SeqsOf(S, lo, hi) == UNION {[1..n -> S] : n \in lo..hi}

NoDup(s) == \A i, j \in 1..Len(s) : s[i] = s[j] => i = j

\* characters that str.strip() and the tokenizers treat as white space
Whitespace == {" ", "\n"}

----------------------------------------------------------------------------
\* String operations of the Python runtime used by the code

\* '\n'.join(labels)
RECURSIVE Join(_)
Join(labels) ==
    IF labels = <<>> THEN <<>>
    ELSE IF Len(labels) = 1 THEN labels[1]
    ELSE labels[1] \o <<"\n">> \o Join(Tail(labels))

\* file.readlines(): the lines of the content, each with its terminator
RECURSIVE ReadLinesFrom(_, _)
ReadLinesFrom(content, cur) ==
    IF content = <<>> THEN (IF cur = <<>> THEN <<>> ELSE <<cur>>)
    ELSE IF Head(content) = "\n"
         THEN <<Append(cur, "\n")>> \o ReadLinesFrom(Tail(content), <<>>)
         ELSE ReadLinesFrom(Tail(content), Append(cur, Head(content)))

ReadLines(content) == ReadLinesFrom(content, <<>>)

\* s.strip(): leading and trailing white space removed
RECURSIVE LStrip(_)
LStrip(s) == IF s # <<>> /\ Head(s) \in Whitespace THEN LStrip(Tail(s)) ELSE s

RECURSIVE RStrip(_)
RStrip(s) ==
    IF s # <<>> /\ s[Len(s)] \in Whitespace THEN RStrip(SubSeq(s, 1, Len(s) - 1)) ELSE s

Strip(s) == LStrip(RStrip(s))

\* splitting a string into its white-space separated words
RECURSIVE SplitFrom(_, _)
SplitFrom(s, cur) ==
    IF s = <<>> THEN (IF cur = <<>> THEN <<>> ELSE <<cur>>)
    ELSE IF Head(s) \in Whitespace
         THEN (IF cur = <<>> THEN <<>> ELSE <<cur>>) \o SplitFrom(Tail(s), <<>>)
         ELSE SplitFrom(Tail(s), Append(cur, Head(s)))

\* shorttext.utils.tokenize: string -> ordered sequence of tokens
tokenize(text) == SplitFrom(text, <<>>)

----------------------------------------------------------------------------
\* The word-embedding model (gensim KeyedVectors): word -> vector, or a miss

ZeroVec == [k \in 1..vecsize |-> 0]

W_a == <<"a">>
W_b == <<"b">>
W_ab == <<"a", "b">>

\* the words the embedding model knows; W_b is a miss
Vocabulary == {W_a, W_ab}

wvmodel(word) == IF word = W_a THEN [k \in 1..vecsize |-> k]
                 ELSE [k \in 1..vecsize |-> k + 2]

\* self.wvmodel[word] if word in self.wvmodel else np.zeros(self.vecsize)
word_to_embedvec(word) == IF word \in Vocabulary THEN wvmodel(word) ELSE ZeroVec

EmbedTokens_offbyone(tokens) ==
    [j \in 1..maxlen |->
        IF j < Min(maxlen, Len(tokens)) THEN word_to_embedvec(tokens[j]) ELSE ZeroVec]

\* np.zeros((maxlen, vecsize)) with rows 0..min(maxlen, len(tokens))-1 assigned
EmbedTokens(tokens) ==
    [j \in 1..maxlen |->
        IF j <= Min(maxlen, Len(tokens)) THEN word_to_embedvec(tokens[j]) ELSE ZeroVec]

\* shorttext_to_matrix(shorttext)
shorttext_to_matrix(shorttext) == EmbedTokens(tokenize(shorttext))

----------------------------------------------------------------------------
\* keras.preprocessing.text.Tokenizer and keras.preprocessing.sequence, as the
\* code uses them (default arguments)

\* text_to_word_sequence: the words of one text
text_to_word_sequence(text) == SplitFrom(text, <<>>)

\* iterating over a Python str yields its characters, each a str of length 1
IterStr(s) == [i \in 1..Len(s) |-> <<s[i]>>]

CountOf(w, words) == Cardinality({i \in 1..Len(words) : words[i] = w})

FirstPos(w, words) ==
    CHOOSE i \in 1..Len(words) : words[i] = w /\ \A k \in 1..(i - 1) : words[k] # w

\* Tokenizer.fit_on_texts(texts).word_index: rank by descending count, ties in
\* order of first occurrence, starting at 1
WordIndex(texts, w) ==
    LET words == Flatten([i \in 1..Len(texts) |-> text_to_word_sequence(texts[i])])
    IN  1 + Cardinality({v \in Range(words) :
                \/ CountOf(v, words) > CountOf(w, words)
                \/ /\ CountOf(v, words) = CountOf(w, words)
                   /\ FirstPos(v, words) < FirstPos(w, words)})

\* Tokenizer.texts_to_sequences(texts) after fit_on_texts(texts): one sequence
\* of word indices per element of texts
texts_to_sequences(texts) ==
    [i \in 1..Len(texts) |->
        LET ws == text_to_word_sequence(texts[i])
        IN  [k \in 1..Len(ws) |-> WordIndex(texts, ws[k])]]

\* pad_sequences(seqs, maxlen=maxlen): zeros in front, the last maxlen kept
pad_sequences(seqs) ==
    [i \in 1..Len(seqs) |->
        LET n == Len(seqs[i])
        IN  [j \in 1..maxlen |->
                IF j <= maxlen - n THEN 0 ELSE seqs[i][n - maxlen + j]]]

----------------------------------------------------------------------------
\* Training data: classdict is a dict label -> list of entries, here the
\* sequence of its items in key iteration order.  An entry is a str
\* (isstr = TRUE, val its characters) or any other object (isstr = FALSE, val
\* what the object would tokenize to if it were taken as text).

Str(s) == [isstr |-> TRUE, val |-> s]
NonStr(s) == [isstr |-> FALSE, val |-> s]

Keys(classdict) == [i \in 1..Len(classdict) |-> classdict[i].label]

NormalizeEntry_keep(entry) == entry

\* shorttext = shorttext if type(shorttext)==str else ''
NormalizeEntry(entry) == IF entry.isstr THEN entry ELSE Str(<<>>)

LabelIndex_shifted(labels, label) ==
    LET p == CHOOSE i \in 1..Len(labels) : labels[i] = label
    IN  IF p = Len(labels) THEN 1 ELSE p + 1

\* lblidx_dict[label] + 1, lblidx_dict = dict(zip(classlabels, range(len(classlabels))))
LabelIndex(labels, label) ==
    CHOOSE i \in 1..Len(labels) : labels[i] = label

\* category_bucket = [0]*len(classlabels); category_bucket[lblidx_dict[label]] = 1
CategoryBucket(labels, label) ==
    [k \in 1..Len(labels) |-> IF k = LabelIndex(labels, label) THEN 1 ELSE 0]

\* classlabels = classdict.keys()
ClassLabelsOf(classdict) == Keys(classdict)

\* the (label, entry) pairs in the order of the two nested for loops
Examples(classdict) ==
    Flatten([i \in 1..Len(classdict) |->
        [k \in 1..Len(classdict[i].texts) |->
            [label |-> classdict[i].label, entry |-> classdict[i].texts[k]]]])

\* convert_trainingdata_matrix(classdict) -> (classlabels, phrases or
\* train_embedvec, indices)
convert_trainingdata_matrix(classdict) ==
    LET cl == ClassLabelsOf(classdict)
        ex == Examples(classdict)
        indices == [i \in 1..Len(ex) |-> CategoryBucket(cl, ex[i].label)]
        texts == [i \in 1..Len(ex) |-> NormalizeEntry(ex[i].entry)]
        phrases == [i \in 1..Len(ex) |->
                        IF with_gensim THEN texts[i].val ELSE tokenize(texts[i].val)]
        \* tokenize() of an object that is no str raises
        raised == ~with_gensim /\ \E i \in 1..Len(ex) : ~texts[i].isstr
    IN  IF with_gensim
        THEN [classlabels |-> cl, x |-> phrases, indices |-> indices,
              raised |-> raised]
        ELSE [classlabels |-> cl,
              x |-> [i \in 1..Len(phrases) |-> EmbedTokens(phrases[i])],
              indices |-> indices, raised |-> raised]

----------------------------------------------------------------------------
\* Inputs

L_a == <<"a">>
L_b == <<"b">>
L_asp == <<"a", " ">>

\* class labels: two plain ones and one that ends in a blank
LabelStrings == {L_a, L_b, L_asp}

LabelLists == {ls \in SeqsOf(LabelStrings, 1, MaxLabels) : NoDup(ls)}

\* a text of maxlen + 1 tokens, alternately "a" (a hit) and "b" (a miss)
LongText ==
    Flatten([i \in 1..(maxlen + 1) |->
        IF i % 2 = 1 THEN <<"a", " ">> ELSE <<"b", " ">>])

\* '', 'ab' (one token, a hit), 'b' (a miss), 'a b a ...' (maxlen + 1 tokens)
Texts == {<<>>, <<"a", "b">>, <<"b">>, LongText}

Entries == {Str(<<>>), Str(<<"a", "b">>), Str(LongText), NonStr(<<"a">>)}

RECURSIVE SumTo(_, _)
SumTo(counts, n) == IF n = 0 THEN 0 ELSE counts[n] + SumTo(counts, n - 1)

\* the dict whose keys are labels and whose i-th value holds counts[i]
\* consecutive entries of flat
BuildDict(labels, flat, counts) ==
    [i \in 1..Len(labels) |->
        [label |-> labels[i],
         texts |-> SubSeq(flat, SumTo(counts, i - 1) + 1, SumTo(counts, i))]]

\* self.model before train or loadmodel has set it
NoModel == [nout |-> 0, src |-> "none"]

\* the values model.predict puts into a prediction row
ScoreVals == {1, 2}

NoFile == [model  |-> [exists |-> FALSE, nout |-> 0],
           labels |-> [exists |-> FALSE, content |-> <<>>],
           config |-> [exists |-> FALSE, flag |-> FALSE]]

----------------------------------------------------------------------------
\* __init__(wvmodel, vecsize, maxlen, with_gensim)
Init ==
    /\ with_gensim \in BOOLEAN
    /\ trained = FALSE
    /\ classlabels = <<>>
    /\ model = NoModel
    /\ fs = NoFile
    /\ lastOp = "init"
    /\ lastResult = "ok"
    /\ lastArg = <<>>
    /\ lastOut = <<>>
    /\ lastWrites = <<>>
    /\ predictArgs = <<>>
    /\ lastPred = <<>>
    /\ everCompleted = FALSE

----------------------------------------------------------------------------
\* The encoder called on its own: an instance and the argument of one call

\* classdict arguments: up to MaxLabels labels, up to MaxEntries entries
ClassDicts ==
    UNION {UNION {{BuildDict(labels, flat, counts) :
                counts \in {c \in [1..Len(labels) -> 0..Len(flat)] :
                                SumTo(c, Len(labels)) = Len(flat)}} :
            flat \in SeqsOf(Entries, 0, MaxEntries)} :
        labels \in LabelLists}

InitEnc ==
    /\ with_gensim \in BOOLEAN
    /\ trained = FALSE
    /\ classlabels = <<>>
    /\ model = NoModel
    /\ fs = NoFile
    /\ lastOp = "call"
    /\ lastResult = "pending"
    /\ lastArg \in {[classdict |-> d] : d \in ClassDicts}
                   \cup {[shorttext |-> t] : t \in Texts}
    /\ lastOut = <<>>
    /\ lastWrites = <<>>
    /\ predictArgs = <<>>
    /\ lastPred = <<>>
    /\ everCompleted = FALSE

\* convert_trainingdata_matrix(classdict)
Convert ==
    /\ lastOp = "call"
    /\ "classdict" \in DOMAIN lastArg
    /\ LET conv == convert_trainingdata_matrix(lastArg.classdict)
       IN  /\ lastOp' = "convert"
           /\ lastResult' = IF conv.raised THEN "TypeError" ELSE "ok"
           /\ lastOut' = IF conv.raised THEN <<>> ELSE conv
    /\ UNCHANGED <<with_gensim, trained, classlabels, model, fs, lastArg, lastWrites,
                   predictArgs, lastPred, everCompleted>>

\* shorttext_to_matrix(shorttext)
Encode ==
    /\ lastOp = "call"
    /\ "shorttext" \in DOMAIN lastArg
    /\ lastOp' = "encode"
    /\ lastResult' = "ok"
    /\ lastOut' = shorttext_to_matrix(lastArg.shorttext)
    /\ UNCHANGED <<with_gensim, trained, classlabels, model, fs, lastArg, lastWrites,
                   predictArgs, lastPred, everCompleted>>

NextEnc == Convert \/ Encode

SpecEnc == InitEnc /\ [][NextEnc]_vars

----------------------------------------------------------------------------
\* The classifier over its life: train, savemodel, loadmodel, score

\* the label lists of the training corpora of the calls
TrainLabelLists == {<<L_a>>, <<L_a, L_asp>>, <<L_b, L_a>>}

\* training corpora of the calls: one text under each label
TrainDicts ==
    {[i \in 1..Len(ls) |-> [label |-> ls[i], texts |-> <<Str(<<"a", "b">>)>>]] :
        ls \in TrainLabelLists}

\* kerasmodel arguments of train: Sequential models with nout outputs
CallerModels == {[nout |-> Len(ls), src |-> "caller"] : ls \in TrainLabelLists}

\* shorttext arguments of score
ScoreTexts == {<<>>, <<"b">>, LongText}

\* kerasmodel.fit(x, y) needs one example at least and targets as wide as the
\* model's output layer
FitAccepts(kerasmodel, x, y) ==
    /\ Len(y) > 0
    /\ \A i \in 1..Len(y) : Len(y[i]) = kerasmodel.nout

TrainCommit_early(kerasmodel, fitok) ==
    [model |-> kerasmodel, trained |-> TRUE]

\* the flag switch of train, which runs only when fit has returned
TrainCommit(kerasmodel, fitok) ==
    IF fitok THEN [model |-> kerasmodel, trained |-> TRUE]
    ELSE [model |-> model, trained |-> trained]

\* train(classdict, kerasmodel); fitraises: the external fit fails on its own
Train ==
    \E classdict \in TrainDicts, kerasmodel \in CallerModels, fitraises \in BOOLEAN :
        LET conv == convert_trainingdata_matrix(classdict)
            x_train == IF with_gensim
                       THEN pad_sequences(texts_to_sequences(conv.x))
                       ELSE conv.x
            fitok == ~fitraises /\ FitAccepts(kerasmodel, x_train, conv.indices)
            commit == TrainCommit(kerasmodel, fitok)
        IN  /\ ~conv.raised
            /\ classlabels' = conv.classlabels
            /\ model' = commit.model
            /\ trained' = commit.trained
            /\ everCompleted' = (everCompleted \/ fitok)
            /\ lastOp' = "train"
            /\ lastArg' = <<>>
            /\ lastResult' = IF fitok THEN "ok" ELSE "ExternalModelError"
            /\ lastOut' = <<>>
            /\ UNCHANGED <<with_gensim, fs, lastWrites, predictArgs, lastPred>>

\* savemodel: if not self.trained: raise e.ModelNotTrainedException()
SaveNotTrained == ~trained

SaveOrder_labelsfirst == <<"labels", "config", "model">>

\* the writes of savemodel, in program order
SaveOrder == <<"model", "labels", "config">>

\* the file a completed write leaves
Written(name) ==
    IF name = "model" THEN [exists |-> TRUE, nout |-> model.nout]
    ELSE IF name = "labels" THEN [exists |-> TRUE, content |-> Join(classlabels)]
    ELSE [exists |-> TRUE, flag |-> with_gensim]

\* the files after the first n writes of savemodel, of which write failstep
\* (0: none) raises before it has written anything
RECURSIVE FilesAfter(_, _, _)
FilesAfter(f, n, failstep) ==
    IF n = 0 THEN f
    ELSE LET g == FilesAfter(f, n - 1, failstep)
             name == SaveOrder[n]
         IN  IF failstep = 0 \/ n < failstep
             THEN [g EXCEPT ![name] = Written(name)]
             ELSE g

\* the files savemodel wrote, in order
Touched(failstep) ==
    SubSeq(SaveOrder, 1, IF failstep = 0 THEN Len(SaveOrder) ELSE failstep - 1)

\* savemodel(nameprefix)
SaveModel ==
    \E failstep \in 0..Len(SaveOrder) :
        /\ lastOp' = "save"
        /\ lastArg' = <<>>
        /\ lastOut' = <<>>
        /\ IF SaveNotTrained
           THEN /\ lastResult' = "ModelNotTrainedException"
                /\ lastWrites' = <<>>
                /\ fs' = fs
           ELSE /\ lastResult' = IF failstep = 0 THEN "ok"
                                 ELSE IF SaveOrder[failstep] = "model"
                                      THEN "ExternalModelError" ELSE "IOError"
                /\ lastWrites' = Touched(failstep)
                /\ fs' = FilesAfter(fs, Len(SaveOrder), failstep)
        /\ UNCHANGED <<with_gensim, trained, classlabels, model, predictArgs,
                       lastPred, everCompleted>>

\* map(lambda s: s.strip(), labelfile.readlines())
ReadLabels(content) ==
    LET lines == ReadLines(content)
    IN  [i \in 1..Len(lines) |-> Strip(lines[i])]

ConfigDefault_keep == with_gensim

\* with_gensim after loadmodel when <prefix>_config.json does not exist
ConfigDefault == FALSE

\* kerasio.load_model(nameprefix) raises when the model files are missing
load_model_raises == ~fs.model.exists

\* loadmodel(nameprefix)
LoadModel ==
    /\ lastOp' = "load"
    /\ lastArg' = [with_gensim |-> with_gensim, trained |-> trained]
    /\ lastOut' = <<>>
    /\ IF load_model_raises
       THEN \* kerasio.load_model raises
            /\ lastResult' = "IOError"
            /\ UNCHANGED <<model, classlabels, with_gensim, trained, everCompleted>>
       ELSE /\ model' = [nout |-> fs.model.nout, src |-> "loaded"]
            /\ IF ~fs.labels.exists
               THEN \* open(nameprefix+'_classlabels.txt', 'r') raises
                    /\ lastResult' = "IOError"
                    /\ UNCHANGED <<classlabels, with_gensim, trained, everCompleted>>
               ELSE /\ classlabels' = ReadLabels(fs.labels.content)
                    /\ with_gensim' = IF fs.config.exists THEN fs.config.flag
                                      ELSE ConfigDefault
                    /\ trained' = TRUE
                    /\ everCompleted' = TRUE
                    /\ lastResult' = "ok"
    /\ UNCHANGED <<fs, lastWrites, predictArgs, lastPred>>

\* process_text(shorttext): Tokenizer.fit_on_texts and texts_to_sequences
\* iterate over their argument, here the str shorttext itself
process_text(shorttext) == pad_sequences(texts_to_sequences(IterStr(shorttext)))

\* score: if not self.trained: raise e.ModelNotTrainedException()
ScoreNotTrained == ~trained

\* scoredict after the loop scoredict[classlabel] = predictions[0][idx]
ScoreDict(labels, row) ==
    [l \in Range(labels) |->
        row[CHOOSE i \in 1..Len(labels) :
                labels[i] = l /\ \A k \in (i + 1)..Len(labels) : labels[k] # l]]

\* score(shorttext); row: the prediction of the external model for an example
Score ==
    \E shorttext \in ScoreTexts, row \in [1..model.nout -> ScoreVals] :
        /\ lastOp' = "score"
        /\ lastArg' = shorttext
        /\ IF ScoreNotTrained
           THEN /\ lastResult' = "ModelNotTrainedException"
                /\ predictArgs' = <<>>
                /\ lastPred' = <<>>
                /\ lastOut' = <<>>
           ELSE LET matrix == IF with_gensim THEN process_text(shorttext)
                              ELSE <<shorttext_to_matrix(shorttext)>>
                    \* model.predict(matrix): one row for each example
                    predictions == [i \in 1..Len(matrix) |-> row]
                    \* predictions[0][idx] is out of range for some label
                    indexerror == /\ classlabels # <<>>
                                  /\ \/ predictions = <<>>
                                     \/ Len(classlabels) > Len(row)
                IN  /\ predictArgs' = <<matrix>>
                    /\ lastPred' = predictions
                    /\ lastResult' = IF indexerror THEN "IndexError" ELSE "ok"
                    /\ lastOut' = IF indexerror THEN <<>>
                                  ELSE ScoreDict(classlabels, predictions[1])
        /\ UNCHANGED <<with_gensim, trained, classlabels, model, fs, lastWrites,
                       everCompleted>>

Next == Train \/ SaveModel \/ LoadModel \/ Score

Spec == Init /\ [][Next]_vars

----------------------------------------------------------------------------
\* Properties of the classifier over its life (checked under Spec)

NotTrainedError == "ModelNotTrainedException"

\* s is an initial part of t
IsPrefix(s, t) == Len(s) <= Len(t) /\ \A i \in 1..Len(s) : s[i] = t[i]

\* C1: while no train call and no loadmodel call has returned normally (failed
\* attempts included), every score call and every savemodel call raises
\* ModelNotTrainedException, model.predict is not called, the external save is
\* not called and no file is written.
C1_UntrainedRaises ==
    ~everCompleted /\ lastOp \in {"score", "save"} =>
        /\ lastResult = NotTrainedError
        /\ predictArgs = <<>>
        /\ lastWrites = <<>>
        /\ fs = NoFile

\* score on an instance whose only train call failed in the external fit
C1_Witness ==
    /\ ~everCompleted
    /\ classlabels # <<>>
    /\ lastOp = "score"
    /\ lastResult = NotTrainedError

\* C4: a successful savemodel followed by loadmodel of the same prefix gives
\* back the label list that was saved, element by element in the same order,
\* and the with_gensim flag that was saved.
C4_SaveLoadRoundTrip ==
    [][lastOp = "save" /\ lastResult = "ok" /\ lastOp' = "load" =>
            /\ lastResult' = "ok"
            /\ classlabels' = classlabels
            /\ with_gensim' = with_gensim]_vars

\* C5: loadmodel with the model and class-label files present and the config
\* file absent returns normally, sets trained and sets with_gensim to False
\* whatever it was; with the class-label file or the model files missing it
\* raises an I/O error and leaves trained as it was.
C5_LoadDefaults ==
    lastOp = "load" =>
        /\ fs.model.exists /\ fs.labels.exists /\ ~fs.config.exists =>
                lastResult = "ok" /\ trained /\ ~with_gensim
        /\ ~fs.model.exists \/ ~fs.labels.exists =>
                lastResult = "IOError" /\ trained = lastArg.trained

\* an instance built with with_gensim=True loads files that lack the config
C5_Witness ==
    /\ lastOp = "load"
    /\ lastResult = "ok"
    /\ fs.model.exists /\ fs.labels.exists /\ ~fs.config.exists
    /\ lastArg.with_gensim
    /\ ~with_gensim
    /\ trained

\* C6: on a trained or loaded instance score returns a mapping whose keys are
\* the retained class labels and in which the label at position i maps to
\* entry i of the first prediction row.
C6_ScoreMapping ==
    lastOp = "score" /\ lastResult # NotTrainedError =>
        /\ lastResult = "ok"
        /\ DOMAIN lastOut = Range(classlabels)
        /\ \A i \in 1..Len(classlabels) : lastOut[classlabels[i]] = lastPred[1][i]

\* C8 as stated: savemodel writes the label file, then the config file, then
\* the model artifacts, so the model artifacts exist only if the label file
\* and the config file do.
C8_LabelsConfigModel ==
    /\ lastOp = "save" => IsPrefix(lastWrites, <<"labels", "config", "model">>)
    /\ fs.model.exists => fs.labels.exists /\ fs.config.exists

\* C8 amended: savemodel writes the model artifacts, then the label file, then
\* the config file, so the config file exists only if the label file does and
\* the label file only if the model artifacts do.
C8_ModelLabelsConfig ==
    /\ lastOp = "save" => IsPrefix(lastWrites, <<"model", "labels", "config">>)
    /\ fs.config.exists => fs.labels.exists
    /\ fs.labels.exists => fs.model.exists

\* a savemodel that failed opening the label file: the model artifacts are
\* the only files
C8_Witness ==
    /\ lastOp = "save"
    /\ lastResult = "IOError"
    /\ lastWrites = <<"model">>
    /\ fs.model.exists
    /\ ~fs.labels.exists
    /\ ~fs.config.exists

\* C9: a score call on a trained instance, in either mode, calls model.predict
\* once, with a batch of exactly one example.
C9_OneExampleBatch ==
    lastOp = "score" /\ lastResult # NotTrainedError =>
        /\ Len(predictArgs) = 1
        /\ Len(predictArgs[1]) = 1

\* C10, for calls on a trained instance: a train or loadmodel call that fails
\* leaves trained, the retained class labels and the retained model as they
\* were, so that both still come from one successful call.
C10_FailedCallKeepsState ==
    [][trained /\ lastOp' \in {"train", "load"} /\ lastResult' # "ok" =>
            /\ trained' = trained
            /\ classlabels' = classlabels
            /\ model' = model]_vars

----------------------------------------------------------------------------
\* Properties of the encoder (checked under SpecEnc)

\* number of entries under the first i labels of dict d
RECURSIVE EntriesUpTo(_, _)
EntriesUpTo(d, i) == IF i = 0 THEN 0 ELSE Len(d[i].texts) + EntriesUpTo(d, i - 1)

\* position in d of the label under which the r-th entry was supplied
OwnerOf(d, r) ==
    CHOOSE i \in 1..Len(d) : EntriesUpTo(d, i - 1) < r /\ r <= EntriesUpTo(d, i)

\* the r-th entry of d, counting through the labels in key order
EntryAt(d, r) == d[OwnerOf(d, r)].texts[r - EntriesUpTo(d, OwnerOf(d, r) - 1)]

AllZero(v) == \A k \in 1..Len(v) : v[k] = 0

OnesOf(row) == {k \in 1..Len(row) : row[k] = 1}
ZerosOf(row) == {k \in 1..Len(row) : row[k] = 0}

\* row is the one-hot vector of length n with its 1 at position p
IsOneHotAt(row, n, p) ==
    /\ Len(row) = n
    /\ OnesOf(row) = {p}
    /\ Cardinality(ZerosOf(row)) = n - 1

\* m is the EmbeddedMatrix of the token sequence t
IsEmbeddedMatrixOf(m, t) ==
    /\ Len(m) = maxlen
    /\ \A j \in 1..maxlen :
        /\ Len(m[j]) = vecsize
        /\ j <= Min(maxlen, Len(t)) /\ t[j] \in Vocabulary => m[j] = wvmodel(t[j])
        /\ j <= Min(maxlen, Len(t)) /\ t[j] \notin Vocabulary => AllZero(m[j])
        /\ j > Min(maxlen, Len(t)) => AllZero(m[j])

Converted == lastOp = "convert" /\ lastResult = "ok"

\* C2: convert_trainingdata_matrix returns the class labels in the key
\* iteration order of the corpus and one target row per entry; every row has
\* exactly one 1 and N-1 zeros, the 1 at the index, in the returned label
\* list, of the label under which the entry was supplied.
C2_LabelOrderOneHot ==
    Converted =>
        LET d == lastArg.classdict
            cl == lastOut.classlabels
            y == lastOut.indices
        IN  /\ Len(cl) = Len(d)
            /\ \A i \in 1..Len(d) : cl[i] = d[i].label
            /\ Len(y) = EntriesUpTo(d, Len(d))
            /\ \A r \in 1..Len(y) : IsOneHotAt(y[r], Len(d), OwnerOf(d, r))

\* two labels in an order that is not the sorted one, an entry under each
C2_Witness ==
    /\ Converted
    /\ lastOut.classlabels = <<L_b, L_a>>
    /\ Len(lastArg.classdict[1].texts) = 1
    /\ Len(lastArg.classdict[2].texts) >= 1
    /\ lastOut.indices[1] = <<1, 0>>
    /\ lastOut.indices[2] = <<0, 1>>

\* C3: the EmbeddedMatrix of a text with tokens t has maxlen rows of length
\* vecsize; row j < min(maxlen, T) is the vector of t[j] on a hit and zero on
\* a miss, every later row is zero, tokens from position maxlen on are
\* dropped; in training (default mode) and in shorttext_to_matrix alike.
C3_EmbeddedMatrix ==
    /\ lastOp = "encode" =>
            IsEmbeddedMatrixOf(lastOut, tokenize(lastArg.shorttext))
    /\ Converted /\ ~with_gensim =>
            LET d == lastArg.classdict
            IN  /\ Len(lastOut.x) = EntriesUpTo(d, Len(d))
                /\ \A r \in 1..Len(lastOut.x) :
                        EntryAt(d, r).isstr =>
                            IsEmbeddedMatrixOf(lastOut.x[r], tokenize(EntryAt(d, r).val))

\* a text of more than maxlen tokens with a hit first and a miss second; its
\* last token is dropped
C3_Witness ==
    /\ lastOp = "encode"
    /\ lastArg.shorttext = LongText
    /\ Len(tokenize(LongText)) > maxlen
    /\ lastOut[1] = wvmodel(W_a)
    /\ ~AllZero(lastOut[1])
    /\ AllZero(lastOut[2])

\* C7: convert_trainingdata_matrix never fails on an entry that is no str: the
\* entry counts as the empty text and still gives one example (an all-zero
\* matrix in default mode, the empty raw text with with_gensim) with the
\* one-hot target of its label; there are as many examples as entries.
C7_NonStringEntries ==
    lastOp = "convert" =>
        /\ lastResult = "ok"
        /\ LET d == lastArg.classdict
               n == EntriesUpTo(d, Len(d))
           IN  /\ Len(lastOut.x) = n
               /\ Len(lastOut.indices) = n
               /\ \A r \in 1..n :
                    ~EntryAt(d, r).isstr =>
                        /\ with_gensim => lastOut.x[r] = <<>>
                        /\ ~with_gensim =>
                                /\ Len(lastOut.x[r]) = maxlen
                                /\ \A j \in 1..maxlen :
                                        /\ Len(lastOut.x[r][j]) = vecsize
                                        /\ AllZero(lastOut.x[r][j])
                        /\ IsOneHotAt(lastOut.indices[r], Len(d), OwnerOf(d, r))

\* default mode, a str under the first label and an object that is no str
\* under the second
C7_Witness ==
    /\ lastOp = "convert"
    /\ lastResult = "ok"
    /\ ~with_gensim
    /\ Len(lastArg.classdict) = 2
    /\ Len(lastArg.classdict[1].texts) = 1
    /\ lastArg.classdict[1].texts[1].isstr
    /\ Len(lastArg.classdict[2].texts) >= 1
    /\ ~lastArg.classdict[2].texts[1].isstr
    /\ Len(lastOut.x) >= 2
    /\ \A j \in 1..maxlen : AllZero(lastOut.x[2][j])
    /\ lastOut.indices[2] = <<0, 1>>

====
